---- MODULE Spec2Model ----
(***************************************************************************)
(* The dubbing job pipeline of app/dubbing_service.py: the record store    *)
(* (languages, videos, dubbing jobs), the files the service creates, the   *)
(* ThreadPoolExecutor that runs _process_dubbing_sync, and one handle per  *)
(* call of process_dubbing_job.                                            *)
(***************************************************************************)
EXTENDS Integers, Sequences, FiniteSets, TLC

\* ---------------------------------------------------------------- bounds
MaxVideos == 1
MaxJobs == 1
MaxCalls == 3
MaxBatch == 3
MaxListed == 2
MaxUploads == 2
MaxDuration == 130
MaxClicks == 2
MaxRows == 3
MaxStartups == 3

\* ----------------------------------------------------- program constants
\* ThreadPoolExecutor(max_workers=2)
max_workers == 2
\* the id the tests use for a record that does not exist
NoSuchId == 999

\* Optional[T]: None is the empty tuple, a value x is <<x>>.
None == <<>>
Some(x) == <<x>>

\* DubbingStatus
PENDING == "pending"
PROCESSING == "processing"
COMPLETED == "completed"
FAILED == "failed"
DubbingStatus == {PENDING, PROCESSING, COMPLETED, FAILED}

\* LanguageCode
ENGLISH == "en"
SPANISH == "es"
FRENCH == "fr"
GERMAN == "de"

\* languages_data of _initialize_languages, in insertion order (ids 1..4)
languages_data ==
  << [code |-> ENGLISH, name |-> "English", is_active |-> TRUE],
     [code |-> SPANISH, name |-> "Spanish", is_active |-> TRUE],
     [code |-> FRENCH,  name |-> "French",  is_active |-> TRUE],
     [code |-> GERMAN,  name |-> "German",  is_active |-> TRUE] >>

\* datetime.utcnow(): only whether a timestamp field is set is kept
utcnow == "utcnow"

\* The fixed messages of the five stages, in pipeline order.
StageLabel ==
  << "Failed to extract audio from video",
     "Failed to transcribe audio",
     "Failed to translate text",
     "Failed to generate AI speech",
     "Failed to replace video audio" >>

\* str(e) of the faults that reach the outer handler of _process_dubbing_sync
AttrFilePath == "'NoneType' object has no attribute 'file_path'"
AttrCode == "'NoneType' object has no attribute 'code'"
UnlinkError == "[Errno 13] Permission denied"
StoreError == "store error"
SchedulerError == "cannot schedule new futures after shutdown"

VARIABLES
  languages,     \* table languages: id -> row
  videos,        \* table videos: id -> row
  jobs,          \* table dubbing_jobs: id -> row
  commits,       \* per job id, the number of committed writes after the insert
  files,         \* the files on disk that the service created
  calls,         \* one record per call of process_dubbing_job (its handle and
                 \* the frame of _process_dubbing_sync it scheduled), keyed by
                 \* <<job id, n>> for the n-th call with that job id
  queue,         \* the executor's work queue: call keys, first in first out
  env_faulty,    \* whether the record store and the executor may raise
  observed       \* the last query a caller made and what it returned, or None

vars == <<languages, videos, jobs, commits, files, calls, queue, env_faulty, observed>>

\* ------------------------------------------------------------ file names
\* tempfile.NamedTemporaryFile(suffix=".wav", delete=False) in the frame of call c
Wav(c) == <<"tmp", c, ".wav">>
\* tempfile.NamedTemporaryFile(suffix=".mp3", delete=False) in the frame of call c
Mp3(c) == <<"tmp", c, ".mp3">>
\* upload_dir / f"video_{timestamp}{file_extension}"
UploadPath(ts) == <<"uploads", "video", ts, ".mp4">>
\* Path(video_path).stem
Stem(path) == <<path[2], path[3]>>
\* f"{video_name}_dubbed_{target_language.value}_{timestamp}.mp4"
OutputFilename(video_path, code, ts) == <<Stem(video_path), "dubbed", code, ts, ".mp4">>
\* output_dir / output_filename
OutputPath(video_path, code, ts) == <<"outputs", OutputFilename(video_path, code, ts)>>
\* Path(output_path).name
PathName(path) == path[2]

\* datetime.now().strftime("%Y%m%d_%H%M%S"): the wall clock, to the second
Timestamps == {"20240101_120000"}

\* ------------------------------------------------------------ the store
\* What one store operation (a session and its commit) can do: succeed, or,
\* when the store is unreachable, raise.
StoreOutcomes == IF env_faulty THEN {TRUE, FALSE} ELSE {TRUE}
\* What loop.run_in_executor can do: schedule the call, or raise.
SchedOutcomes == IF env_faulty THEN {TRUE, FALSE} ELSE {TRUE}

\* job.source_video / job.target_language: the related row, or None
Related(table, id) == IF id \in DOMAIN table THEN Some(id) ELSE None

\* NewJob for a model whose processing_started_at defaulted to the time of
\* creation
NewJob_Stamped(v, l) ==
  [ source_video_id |-> v,
    target_language_id |-> l,
    status |-> PENDING,
    output_filename |-> None,
    output_file_path |-> None,
    output_file_size |-> None,
    processing_started_at |-> Some(utcnow),
    processing_completed_at |-> None,
    error_message |-> None ]

\* DubbingJob(source_video_id=..., target_language_id=..., status=PENDING)
NewJob(v, l) ==
  [ source_video_id |-> v,
    target_language_id |-> l,
    status |-> PENDING,
    output_filename |-> None,
    output_file_path |-> None,
    output_file_size |-> None,
    processing_started_at |-> None,
    processing_completed_at |-> None,
    error_message |-> None ]

\* MarkProcessing left to the worker: process_dubbing_job writes nothing
MarkProcessing_Deferred(row) == row

\* the write of process_dubbing_job: status and processing_started_at
MarkProcessing(row) ==
  [row EXCEPT !.status = PROCESSING, !.processing_started_at = Some(utcnow)]

\* the write of _update_job_success
SuccessRow(row, output_path, size) ==
  [row EXCEPT !.status = COMPLETED,
              !.output_filename = Some(PathName(output_path)),
              !.output_file_path = Some(output_path),
              !.output_file_size = Some(size),
              !.processing_completed_at = Some(utcnow)]

\* ErrorRow with the message assignment left out
ErrorRow_NoMessage(row, error_message) ==
  [row EXCEPT !.status = FAILED,
              !.processing_completed_at = Some(utcnow)]

\* ErrorRow with the status assignment left out
ErrorRow_KeepStatus(row, error_message) ==
  [row EXCEPT !.error_message = Some(error_message),
              !.processing_completed_at = Some(utcnow)]

\* the write of _update_job_error
ErrorRow(row, error_message) ==
  [row EXCEPT !.status = FAILED,
              !.error_message = Some(error_message),
              !.processing_completed_at = Some(utcnow)]

\* update_job_success for an UPDATE statement without its WHERE clause
update_job_success_AllRows(table, job_id, output_path, ok) ==
  IF ok /\ job_id \in DOMAIN table
    THEN [j \in DOMAIN table |->
            SuccessRow(table[j], output_path, IF output_path \in files THEN 1 ELSE 0)]
    ELSE table

\* _update_job_success: the table after it; ok is the store's outcome (a store
\* fault is caught and logged, and the table is left as it was)
update_job_success(table, job_id, output_path, ok) ==
  IF ok /\ job_id \in DOMAIN table
    THEN [table EXCEPT ![job_id] =
            SuccessRow(@, output_path, IF output_path \in files THEN 1 ELSE 0)]
    ELSE table

\* update_job_error with the commit left out: the row is never written
update_job_error_NoCommit(table, job_id, error_message, ok) == table

\* update_job_error for an UPDATE statement without its WHERE clause: every
\* row is written
update_job_error_AllRows(table, job_id, error_message, ok) ==
  IF ok /\ job_id \in DOMAIN table
    THEN [j \in DOMAIN table |-> ErrorRow(table[j], error_message)]
    ELSE table

\* _update_job_error: the table after it
update_job_error(table, job_id, error_message, ok) ==
  IF ok /\ job_id \in DOMAIN table
    THEN [table EXCEPT ![job_id] = ErrorRow(@, error_message)]
    ELSE table

\* session.commit() on the row of job_id, counted
Committed(count, job_id, ok) ==
  IF ok /\ job_id \in DOMAIN count
    THEN [count EXCEPT ![job_id] = @ + 1]
    ELSE count

\* The frames of _process_dubbing_sync that occupy a worker thread.
OnWorker == {"load", "extract", "transcribe", "translate", "synthesize", "mux",
             "success", "finally", "except"}
Running ==
  {c \in DOMAIN calls : calls[c].pc \in OnWorker /\ calls[c].handle # "direct"}

\* the calls whose frame of _process_dubbing_sync waits in the executor's queue
Queued == {c \in DOMAIN calls : calls[c].pc = "queued"}

\* OnLoopThread had process_dubbing_job called _process_dubbing_sync itself
OnLoopThread_Inline == Queued \cup Running

\* The frames of _process_dubbing_sync that run on the callers' thread:
\* those of direct calls. process_dubbing_job puts none there,
\* run_in_executor hands each one to self.executor and the coroutine awaits
\* its future.
OnLoopThread ==
  {c \in DOMAIN calls : calls[c].pc \in OnWorker /\ calls[c].handle = "direct"}

\* The callers (the UI's handlers and tasks) run on the event loop's thread:
\* a call of the service starts when nothing else holds that thread.
LoopFree == OnLoopThread = {}

\* --------------------------------------------------------------- queries
\* get_dubbing_job: the row, or None
get_dubbing_job(job_id) ==
  IF job_id \in DOMAIN jobs THEN Some(jobs[job_id]) ELSE None

\* get_dubbing_jobs without the where clause
get_dubbing_jobs_Unfiltered(video_id) == [j \in DOMAIN jobs |-> j]

\* get_dubbing_jobs that leaves out the jobs whose processing has begun
get_dubbing_jobs_PendingOnly(video_id) ==
  LET Matches(j) == /\ video_id = None \/ jobs[j].source_video_id = video_id[1]
                    /\ jobs[j].status = PENDING IN
  SelectSeq([j \in DOMAIN jobs |-> j], Matches)

\* get_dubbing_jobs: the ids of the rows, in id order, all of them when
\* video_id is None and else those whose source_video_id is video_id
get_dubbing_jobs(video_id) ==
  LET Matches(j) == video_id = None \/ jobs[j].source_video_id = video_id[1] IN
  SelectSeq([j \in DOMAIN jobs |-> j], Matches)

\* get_output_file_path without the look at the disk
get_output_file_path_Stored(job_id) ==
  IF /\ job_id \in DOMAIN jobs
     /\ jobs[job_id].status = COMPLETED
     /\ jobs[job_id].output_file_path # None
    THEN jobs[job_id].output_file_path
    ELSE None

\* get_output_file_path: the stored path of a COMPLETED job whose file
\* exists now, else None
get_output_file_path(job_id) ==
  IF /\ job_id \in DOMAIN jobs
     /\ jobs[job_id].status = COMPLETED
     /\ jobs[job_id].output_file_path # None
     /\ jobs[job_id].output_file_path[1] \in files
    THEN jobs[job_id].output_file_path
    ELSE None

\* get_languages: the ids of the active languages, in id order
get_languages ==
  LET Active(l) == languages[l].is_active IN
  SelectSeq([l \in DOMAIN languages |-> l], Active)

\* get_target_languages without Language.is_active in the where clause
get_target_languages_AnyState(source_language_id) ==
  LET Target(l) == l # source_language_id IN
  SelectSeq([l \in DOMAIN languages |-> l], Target)

\* get_target_languages: the active languages other than source_language_id
get_target_languages(source_language_id) ==
  LET Target(l) == languages[l].is_active /\ l # source_language_id IN
  SelectSeq([l \in DOMAIN languages |-> l], Target)

\* the members of a list
Members(list) == {list[i] : i \in DOMAIN list}

\* What a caller has in place of a result when get_session or the statement
\* raised inside a query: the queries have no try/except, the exception
\* reaches the caller.
QueryRaised == <<"raised", StoreError>>

\* A caller makes a query and keeps what it returned.
Asked(name, arg, result) ==
  /\ LoopFree
  /\ \E ok \in StoreOutcomes :
       observed' = Some(<<name, arg, IF ok THEN result ELSE QueryRaised>>)
  /\ UNCHANGED <<languages, videos, jobs, commits, files, calls, queue, env_faulty>>

\* read_job for a get_dubbing_job that stamps the row it loads and commits
read_job_Touching(job_id) ==
  /\ LoopFree
  /\ observed' = Some(<<"get_dubbing_job", job_id, get_dubbing_job(job_id)>>)
  /\ jobs' = IF job_id \in DOMAIN jobs
               THEN [jobs EXCEPT ![job_id].processing_started_at = Some(utcnow)]
               ELSE jobs
  /\ UNCHANGED <<languages, videos, commits, files, calls, queue, env_faulty>>

read_job(job_id) == Asked("get_dubbing_job", job_id, get_dubbing_job(job_id))
read_jobs(video_id) == Asked("get_dubbing_jobs", video_id, get_dubbing_jobs(video_id))
read_output_file_path(job_id) ==
  Asked("get_output_file_path", job_id, get_output_file_path(job_id))
read_languages == Asked("get_languages", None, get_languages)
read_target_languages(source_language_id) ==
  Asked("get_target_languages", source_language_id, get_target_languages(source_language_id))

\* The owner of the outputs directory removes a file from it.
remove_output(path) ==
  /\ path \in files
  /\ path[1] = "outputs"
  /\ files' = files \ {path}
  /\ UNCHANGED <<languages, videos, jobs, commits, calls, queue, env_faulty, observed>>

\* ------------------------------------------------------- initial state
\* After startup(): the tables exist, _initialize_languages has run, and
\* DubbingService() has made its executor and directories.
Init ==
  /\ languages = languages_data
  /\ videos = <<>>
  /\ jobs = <<>>
  /\ commits = <<>>
  /\ files = {}
  /\ calls = <<>>
  /\ queue = <<>>
  /\ env_faulty = FALSE
  /\ observed = None

\* The languages table as an administrator of the store may have left it:
\* the rows of languages_data, each active or not.
LanguageTables ==
  {[l \in DOMAIN languages_data |-> [languages_data[l] EXCEPT !.is_active = active[l]]] :
     active \in [DOMAIN languages_data -> BOOLEAN]}

InitLanguages ==
  /\ languages \in LanguageTables
  /\ videos = <<>>
  /\ jobs = <<>>
  /\ commits = <<>>
  /\ files = {}
  /\ calls = <<>>
  /\ queue = <<>>
  /\ env_faulty = FALSE
  /\ observed = None

\* The same, in an environment whose store and executor may raise.
InitStoreFaults ==
  /\ languages = languages_data
  /\ videos = <<>>
  /\ jobs = <<>>
  /\ commits = <<>>
  /\ files = {}
  /\ calls = <<>>
  /\ queue = <<>>
  /\ env_faulty = TRUE
  /\ observed = None

\* ------------------------------------------------------------- startup
\* EnsureLanguage for a loop that writes name and is_active of a row it finds
EnsureLanguage_Upsert(table, entry) ==
  IF \E l \in DOMAIN table : table[l].code = entry.code
    THEN [l \in DOMAIN table |-> IF table[l].code = entry.code THEN entry ELSE table[l]]
    ELSE Append(table, entry)

\* one turn of the loop of _initialize_languages: select the Language with
\* the code; if there is none, add Language(code, name, is_active=True)
EnsureLanguage(table, entry) ==
  IF \E l \in DOMAIN table : table[l].code = entry.code
    THEN table
    ELSE Append(table, entry)

\* the loop over languages_data from its k-th entry on
RECURSIVE EnsureFrom(_, _)
EnsureFrom(table, k) ==
  IF k > Len(languages_data)
    THEN table
    ELSE EnsureFrom(EnsureLanguage(table, languages_data[k]), k + 1)

\* how often _initialize_languages has been called
Startups ==
  IF observed # None /\ observed[1][1] = "_initialize_languages" THEN observed[1][3] ELSE 0

\* _initialize_languages: the loop and its one commit
initialize_languages ==
  /\ Startups < MaxStartups
  /\ languages' = EnsureFrom(languages, 1)
  /\ observed' = Some(<<"_initialize_languages", None, Startups + 1>>)
  /\ UNCHANGED <<videos, jobs, commits, files, calls, queue, env_faulty>>

\* The languages table before a startup: empty on a new store; else rows
\* of earlier startups, each active or switched off, in any order of
\* insertion. Language.code is unique.
StartupTables ==
  LET LanguageRows ==
        {[languages_data[k] EXCEPT !.is_active = b] :
           k \in DOMAIN languages_data, b \in BOOLEAN} IN
  {t \in UNION {[1..n -> LanguageRows] : n \in 0..MaxRows} :
     \A i, j \in DOMAIN t : t[i].code = t[j].code => i = j}

InitStartup ==
  /\ languages \in StartupTables
  /\ videos = <<>>
  /\ jobs = <<>>
  /\ commits = <<>>
  /\ files = {}
  /\ calls = <<>>
  /\ queue = <<>>
  /\ env_faulty = FALSE
  /\ observed = None

\* ------------------------------------------------------------- uploads
\* save_video: write the file, insert the row
save_video(ts, source_language_id) ==
  /\ LoopFree
  /\ Len(videos) < MaxVideos
  /\ files' = files \cup {UploadPath(ts)}
  /\ videos' = Append(videos, [file_path |-> UploadPath(ts),
                               source_language_id |-> source_language_id])
  /\ UNCHANGED <<languages, jobs, commits, calls, queue, env_faulty, observed>>

\* A MIME type is <<type, subtype>>, for the string "type/subtype".
\* StartsWithVideo for a test 'if "video" not in e.type'
StartsWithVideo_Contains(type) == type[1] = "video" \/ type[2] = "video"

\* e.type.startswith("video/")
StartsWithVideo(type) == type[1] = "video"

\* The value of source_lang_select: one of its options, which are the active
\* languages; None when there is no option.
SourceSelectInputs ==
  IF get_languages = <<>> THEN {None} ELSE {Some(l) : l \in Members(get_languages)}

\* handle_upload of the UI, for an upload of MIME type type at clock second
\* ts with source_lang_select at select: the two checks, then save_video;
\* what it notifies is kept in observed.
handle_upload(select, type, ts) ==
  /\ LoopFree
  /\ IF select = None
       THEN /\ observed' = Some(<<"handle_upload", <<select, type>>,
                                  "Please select a source language first">>)
            /\ UNCHANGED <<videos, files>>
       ELSE IF ~StartsWithVideo(type)
         THEN /\ observed' = Some(<<"handle_upload", <<select, type>>,
                                    "Please upload a video file">>)
              /\ UNCHANGED <<videos, files>>
         ELSE /\ Len(videos) < MaxUploads
              /\ files' = files \cup {UploadPath(ts)}
              /\ videos' = Append(videos, [file_path |-> UploadPath(ts),
                                           source_language_id |-> select[1]])
              /\ observed' = Some(<<"handle_upload", <<select, type>>,
                                    "Video uploaded successfully!">>)
  /\ UNCHANGED <<languages, jobs, commits, calls, queue, env_faulty>>

\* create_dubbing_job: insert a PENDING row; nothing is validated
create_dubbing_job(source_video_id, target_language_id) ==
  /\ LoopFree
  /\ Len(jobs) < MaxJobs
  /\ jobs' = Append(jobs, NewJob(source_video_id, target_language_id))
  /\ commits' = Append(commits, 0)
  /\ UNCHANGED <<languages, videos, files, calls, queue, env_faulty, observed>>

\* The foreign keys of dubbing_jobs (source_video_id -> videos.id,
\* target_language_id -> languages.id) as a store that enforces them sees
\* them: both rows exist.
References(source_video_id, target_language_id) ==
  /\ source_video_id \in DOMAIN videos
  /\ target_language_id \in DOMAIN languages

\* create_dubbing_job_checked on a store that does not look at the foreign
\* keys: every row is accepted
create_dubbing_job_unchecked(source_video_id, target_language_id) ==
  create_dubbing_job(source_video_id, target_language_id)

\* create_dubbing_job on a store that enforces the foreign keys: the commit
\* of a row with a dangling reference is refused and no row is added.
create_dubbing_job_checked(source_video_id, target_language_id) ==
  /\ References(source_video_id, target_language_id)
  /\ create_dubbing_job(source_video_id, target_language_id)

\* create_dubbing_job by callers that make up to bound jobs
insert_dubbing_job(bound, source_video_id, target_language_id) ==
  /\ LoopFree
  /\ Len(jobs) < bound
  /\ jobs' = Append(jobs, NewJob(source_video_id, target_language_id))
  /\ commits' = Append(commits, 0)
  /\ UNCHANGED <<languages, videos, files, calls, queue, env_faulty, observed>>

\* start_dubbing of the UI: the job for the shown video and the target
\* language picked in the select; the task it creates calls
\* process_dubbing_job in a later turn of the event loop.
start_dubbing(video_id, target_select) ==
  insert_dubbing_job(MaxBatch, video_id, target_select)

\* ---------------------------------------------------------- dispatcher
\* The handle and frame of a new call of process_dubbing_job(job_id).
NewCall(job_id, pc, handle) ==
  [ job |-> job_id,
    pc |-> pc,
    source_video |-> None,
    target_language |-> None,
    output_path |-> None,
    pending |-> "none",
    exc |-> None,
    ret |-> "none",
    handle |-> handle,
    stages |-> <<>> ]

\* The job ids process_dubbing_job has been called with, and the key of the
\* next call with job_id.
Submitted == {c[1] : c \in DOMAIN calls}
CallKey(job_id) == <<job_id, Cardinality({c \in DOMAIN calls : c[1] = job_id}) + 1>>

\* process_dubbing_job without its except clause: the exception propagates
HandleAfterException_Raised == "raised"

\* What the handle of process_dubbing_job resolves to when an exception
\* reaches its except clause: the clause returns False.
HandleAfterException == "false"

\* process_dubbing_job up to its await: the status write, then the hand-over
\* to the executor. An exception anywhere goes to the except clause, which
\* calls _update_job_error and returns False.
process_dubbing_job_call(c, job_id) ==
  /\ LoopFree
  /\ \E ok \in StoreOutcomes, ok2 \in StoreOutcomes, sched \in SchedOutcomes :
       IF ~ok
         THEN /\ jobs' = update_job_error(jobs, job_id, StoreError, ok2)
              /\ commits' = Committed(commits, job_id, ok2)
              /\ calls' = (c :> NewCall(job_id, "resolved", HandleAfterException)) @@ calls
              /\ queue' = queue
         ELSE IF job_id \notin DOMAIN jobs
           THEN /\ calls' = (c :> NewCall(job_id, "resolved", "false")) @@ calls
                /\ UNCHANGED <<jobs, commits, queue>>
           ELSE LET started == [jobs EXCEPT ![job_id] = MarkProcessing(@)]
                    counted == Committed(commits, job_id, TRUE) IN
                IF sched
                  THEN /\ jobs' = started
                       /\ commits' = counted
                       /\ calls' = (c :> NewCall(job_id, "queued", "pending")) @@ calls
                       /\ queue' = Append(queue, c)
                  ELSE /\ jobs' = update_job_error(started, job_id, SchedulerError, ok2)
                       /\ commits' = Committed(counted, job_id, ok2)
                       /\ calls' = (c :> NewCall(job_id, "resolved", HandleAfterException)) @@ calls
                       /\ queue' = queue
  /\ UNCHANGED <<languages, videos, files, env_faulty, observed>>

\* process_dubbing_job(job_id), as the call CallKey(job_id)
process_dubbing_job(job_id) == process_dubbing_job_call(CallKey(job_id), job_id)

\* A caller that keeps the ownership rule: a job id is submitted at most once.
submit(job_id) ==
  /\ job_id \notin Submitted
  /\ process_dubbing_job(job_id)

\* A caller that does not keep it: process_dubbing_job is called again with a
\* job id it has been called with, whatever became of the earlier call.
resubmit(job_id) ==
  /\ job_id \in Submitted
  /\ Cardinality(DOMAIN calls) < MaxCalls
  /\ process_dubbing_job(job_id)

\* start_dubbing_task for a handler that looks for a job of the same video
\* and target language first and monitors that one again
start_dubbing_task_Reuse(video_id, target_select) ==
  /\ LoopFree
  /\ Cardinality(DOMAIN calls) < MaxClicks
  /\ LET same == {j \in DOMAIN jobs : /\ jobs[j].source_video_id = video_id
                                      /\ jobs[j].target_language_id = target_select}
         job_id == IF same = {} THEN Len(jobs) + 1 ELSE CHOOSE j \in same : TRUE IN
     /\ jobs' = IF same = {} THEN Append(jobs, NewJob(video_id, target_select)) ELSE jobs
     /\ commits' = IF same = {} THEN Append(commits, 0) ELSE commits
     /\ calls' = (CallKey(job_id) :> NewCall(job_id, "task", "pending")) @@ calls
  /\ UNCHANGED <<languages, videos, files, queue, env_faulty, observed>>

\* start_dubbing of the UI with the task it creates: create_dubbing_job
\* inserts a row, whose id is new, and asyncio.create_task schedules one
\* monitor_dubbing_job for the job it returned.
start_dubbing_task(video_id, target_select) ==
  /\ LoopFree
  /\ Len(jobs) < MaxClicks
  /\ LET job_id == Len(jobs) + 1 IN
     /\ jobs' = Append(jobs, NewJob(video_id, target_select))
     /\ commits' = Append(commits, 0)
     /\ calls' = (CallKey(job_id) :> NewCall(job_id, "task", "pending")) @@ calls
  /\ UNCHANGED <<languages, videos, files, queue, env_faulty, observed>>

\* monitor_dubbing_job: the task calls process_dubbing_job(job.id), once
monitor_dubbing_job(c) ==
  /\ c \in DOMAIN calls
  /\ calls[c].pc = "task"
  /\ process_dubbing_job_call(c, c[1])

\* worker_take in an executor that starts a thread for every queued call
worker_take_unbounded(c) ==
  /\ queue # <<>>
  /\ Head(queue) = c
  /\ queue' = Tail(queue)
  /\ calls' = [calls EXCEPT ![c].pc = "load"]
  /\ UNCHANGED <<languages, videos, jobs, commits, files, env_faulty, observed>>

\* _process_dubbing_sync(job_id) called directly, as the tests do: the frame
\* runs on the caller's thread, with no status write before it and no handle.
process_dubbing_sync(job_id) ==
  /\ LoopFree
  /\ job_id \notin Submitted
  /\ calls' = calls @@ (CallKey(job_id) :> NewCall(job_id, "load", "direct"))
  /\ UNCHANGED <<languages, videos, jobs, commits, files, queue, env_faulty, observed>>

\* A free worker thread of the executor takes the oldest queued call.
worker_take(c) ==
  /\ queue # <<>>
  /\ Head(queue) = c
  /\ Cardinality(Running) < max_workers
  /\ queue' = Tail(queue)
  /\ calls' = [calls EXCEPT ![c].pc = "load"]
  /\ UNCHANGED <<languages, videos, jobs, commits, files, env_faulty, observed>>

\* ------------------------------------------------- _process_dubbing_sync
\* An adapter wraps an external tool or service and returns a result ("ok")
\* or None ("absent": a non-zero exit, a missing output, a timeout, an API
\* error, each caught inside the adapter).
Outcomes == {"ok", "absent"}
\* What the tool or service behind an adapter can do: its work ("done"), or
\* one of the external faults.
ToolEvents == {"done", "nonzero_exit", "missing_output", "timeout", "missing_tool"}
ApiEvents == {"done", "api_error", "timeout"}
SpeechEvents == {"done", "api_error", "timeout", "missing_output"}
\* str(e) of an exception that subprocess.run or the OpenAI client raised
AdapterError == "adapter error"

\* subprocess.run(..., timeout=...) raises TimeoutExpired on a timeout and
\* FileNotFoundError when ffmpeg is not installed; the OpenAI client raises
\* on an API error and on a timeout. A non-zero exit and a missing output
\* file raise nothing.
Raises(event) == event \in {"timeout", "missing_tool", "api_error"}

\* TryExcept without the except clause: the exception leaves the adapter
TryExcept_Bare(result) == result

\* try: <body> except Exception as e: logger.error(...); return None
TryExcept(result) == IF result = "raised" THEN "absent" ELSE result

\* the body of _extract_audio and _replace_video_audio: subprocess.run, then
\* 'if result.returncode == 0 and <output>.exists()' else None
RunFfmpeg(event) ==
  IF Raises(event) THEN "raised" ELSE IF event = "done" THEN "ok" ELSE "absent"

\* the body of _transcribe_audio and _translate_text: the client call's value
CallApi(event) == IF Raises(event) THEN "raised" ELSE "ok"

\* the body of _generate_ai_speech: the client call, stream_to_file, then
\* 'if Path(speech_path).exists()' else None
CallSpeech(event) ==
  IF Raises(event) THEN "raised" ELSE IF event = "done" THEN "ok" ELSE "absent"

extract_audio(event) == TryExcept(RunFfmpeg(event))
transcribe_audio(event) == TryExcept(CallApi(event))
translate_text(event) == TryExcept(CallApi(event))
generate_ai_speech(event) == TryExcept(CallSpeech(event))
replace_video_audio(event) == TryExcept(RunFfmpeg(event))

\* What the call of stage k can give the frame of _process_dubbing_sync.
Returns(k) ==
  CASE k = 1 -> {extract_audio(e) : e \in ToolEvents}
    [] k = 2 -> {transcribe_audio(e) : e \in ApiEvents}
    [] k = 3 -> {translate_text(e) : e \in ApiEvents}
    [] k = 4 -> {generate_ai_speech(e) : e \in SpeechEvents}
    [] k = 5 -> {replace_video_audio(e) : e \in ToolEvents}

\* Path(audio_path).unlink() in the finally clause: done, or an OSError
UnlinkOutcomes == {TRUE, FALSE}

\* _extract_audio and _generate_ai_speech create their temporary file with
\* NamedTemporaryFile(delete=False) before they call the tool or service, so
\* the file is there whether they return its path or None.
TmpFiles(tmp, out) == files \cup {tmp}

\* The frame c with some of its locals changed.
Frame(c) == calls[c]
AtStage(c, pc) == c \in DOMAIN calls /\ calls[c].pc = pc

\* NextPc with the translate call placed before the transcribe call
NextPc_Swapped(k) == <<"translate", "transcribe", "synthesize", "mux", "success">>[k]

\* The statement after stage k returned a result.
NextPc(k) == <<"transcribe", "translate", "synthesize", "mux", "success">>[k]

\* stage k of frame c returned a result
StageOk(c, k) ==
  [Frame(c) EXCEPT !.pc = NextPc(k), !.stages = Append(@, <<k, "ok">>)]

\* StageAbsent for a frame that calls a stage a second time when it
\* returned None
StageAbsent_Retry(c, k) ==
  IF <<k, "absent">> \in {Frame(c).stages[i] : i \in DOMAIN Frame(c).stages}
    THEN [Frame(c) EXCEPT !.pc = "finally", !.pending = "false",
                          !.stages = Append(@, <<k, "absent">>)]
    ELSE [Frame(c) EXCEPT !.stages = Append(@, <<k, "absent">>)]

\* stage k >= 2 of frame c returned None: after _update_job_error the frame
\* returns False through the finally clause
StageAbsent(c, k) ==
  [Frame(c) EXCEPT !.pc = "finally", !.pending = "false",
                   !.stages = Append(@, <<k, "absent">>)]

\* the call of stage k >= 2 raised: the exception passes the finally clause
\* on its way to the handler
StageRaised(c, k) ==
  [Frame(c) EXCEPT !.pc = "finally", !.pending = "raise", !.exc = Some(AdapterError),
                   !.stages = Append(@, <<k, "raised">>)]

\* the session at the top: load the job and its relationships
sync_load(c) ==
  /\ AtStage(c, "load")
  /\ \E ok \in StoreOutcomes :
       LET job_id == Frame(c).job IN
       calls' = [calls EXCEPT ![c] =
         IF ~ok
           THEN [@ EXCEPT !.pc = "except", !.exc = Some(StoreError)]
           ELSE IF job_id \notin DOMAIN jobs
             THEN [@ EXCEPT !.pc = "returned", !.ret = "false"]
             ELSE [@ EXCEPT !.pc = "extract",
                            !.source_video = Related(videos, jobs[job_id].source_video_id),
                            !.target_language = Related(languages, jobs[job_id].target_language_id)]]
  /\ UNCHANGED <<languages, videos, jobs, commits, files, queue, env_faulty, observed>>

\* audio_path = self._extract_audio(source_video.file_path); on None the
\* frame writes the error and returns False, before the try/finally
sync_extract(c) ==
  /\ AtStage(c, "extract")
  /\ IF Frame(c).source_video = None
       THEN /\ calls' = [calls EXCEPT ![c].pc = "except", ![c].exc = Some(AttrFilePath)]
            /\ UNCHANGED <<jobs, commits, files>>
       ELSE \E out \in Returns(1), ok \in StoreOutcomes :
              /\ files' = TmpFiles(Wav(c), out)
              /\ IF out = "ok"
                   THEN /\ calls' = [calls EXCEPT ![c] = StageOk(c, 1)]
                        /\ UNCHANGED <<jobs, commits>>
                   ELSE IF out = "raised"
                   THEN /\ calls' = [calls EXCEPT ![c].pc = "except",
                                                  ![c].exc = Some(AdapterError),
                                                  ![c].stages = Append(@, <<1, "raised">>)]
                        /\ UNCHANGED <<jobs, commits>>
                   ELSE /\ jobs' = update_job_error(jobs, Frame(c).job, StageLabel[1], ok)
                        /\ commits' = Committed(commits, Frame(c).job, ok)
                        /\ calls' = [calls EXCEPT ![c].pc = "returned", ![c].ret = "false",
                                                  ![c].stages = Append(@, <<1, "absent">>)]
  /\ UNCHANGED <<languages, videos, queue, env_faulty, observed>>

\* transcript = self._transcribe_audio(audio_path)
sync_transcribe(c) ==
  /\ AtStage(c, "transcribe")
  /\ \E out \in Returns(2), ok \in StoreOutcomes :
       IF out = "ok"
         THEN /\ calls' = [calls EXCEPT ![c] = StageOk(c, 2)]
              /\ UNCHANGED <<jobs, commits>>
         ELSE IF out = "raised"
         THEN /\ calls' = [calls EXCEPT ![c] = StageRaised(c, 2)]
              /\ UNCHANGED <<jobs, commits>>
         ELSE /\ jobs' = update_job_error(jobs, Frame(c).job, StageLabel[2], ok)
              /\ commits' = Committed(commits, Frame(c).job, ok)
              /\ calls' = [calls EXCEPT ![c] = StageAbsent(c, 2)]
  /\ UNCHANGED <<languages, videos, files, queue, env_faulty, observed>>

\* translated_text = self._translate_text(transcript, target_language.code);
\* target_language.code raises AttributeError when the language is None
sync_translate(c) ==
  /\ AtStage(c, "translate")
  /\ IF Frame(c).target_language = None
       THEN /\ calls' = [calls EXCEPT ![c].pc = "finally", ![c].pending = "raise",
                                      ![c].exc = Some(AttrCode)]
            /\ UNCHANGED <<jobs, commits>>
       ELSE \E out \in Returns(3), ok \in StoreOutcomes :
              IF out = "ok"
                THEN /\ calls' = [calls EXCEPT ![c] = StageOk(c, 3)]
                     /\ UNCHANGED <<jobs, commits>>
                ELSE IF out = "raised"
                THEN /\ calls' = [calls EXCEPT ![c] = StageRaised(c, 3)]
                     /\ UNCHANGED <<jobs, commits>>
                ELSE /\ jobs' = update_job_error(jobs, Frame(c).job, StageLabel[3], ok)
                     /\ commits' = Committed(commits, Frame(c).job, ok)
                     /\ calls' = [calls EXCEPT ![c] = StageAbsent(c, 3)]
  /\ UNCHANGED <<languages, videos, files, queue, env_faulty, observed>>

\* ai_audio_path = self._generate_ai_speech(translated_text, target_language.code)
sync_synthesize(c) ==
  /\ AtStage(c, "synthesize")
  /\ \E out \in Returns(4), ok \in StoreOutcomes :
       /\ files' = TmpFiles(Mp3(c), out)
       /\ IF out = "ok"
            THEN /\ calls' = [calls EXCEPT ![c] = StageOk(c, 4)]
                 /\ UNCHANGED <<jobs, commits>>
            ELSE IF out = "raised"
            THEN /\ calls' = [calls EXCEPT ![c] = StageRaised(c, 4)]
                 /\ UNCHANGED <<jobs, commits>>
            ELSE /\ jobs' = update_job_error(jobs, Frame(c).job, StageLabel[4], ok)
                 /\ commits' = Committed(commits, Frame(c).job, ok)
                 /\ calls' = [calls EXCEPT ![c] = StageAbsent(c, 4)]
  /\ UNCHANGED <<languages, videos, queue, env_faulty, observed>>

\* output_path = self._replace_video_audio(source_video.file_path,
\*                                         ai_audio_path, target_language.code)
sync_mux(c) ==
  /\ AtStage(c, "mux")
  /\ \E out \in Returns(5), ts \in Timestamps, ok \in StoreOutcomes :
       LET output_path == OutputPath(videos[Frame(c).source_video[1]].file_path,
                                     languages[Frame(c).target_language[1]].code, ts) IN
       IF out = "ok"
         THEN /\ files' = files \cup {output_path}
              /\ calls' = [calls EXCEPT ![c] =
                             [StageOk(c, 5) EXCEPT !.output_path = Some(output_path)]]
              /\ UNCHANGED <<jobs, commits>>
         ELSE IF out = "raised"
         THEN /\ calls' = [calls EXCEPT ![c] = StageRaised(c, 5)]
              /\ UNCHANGED <<jobs, commits, files>>
         ELSE /\ jobs' = update_job_error(jobs, Frame(c).job, StageLabel[5], ok)
              /\ commits' = Committed(commits, Frame(c).job, ok)
              /\ calls' = [calls EXCEPT ![c] = StageAbsent(c, 5)]
              /\ files' = files
  /\ UNCHANGED <<languages, videos, queue, env_faulty, observed>>

\* self._update_job_success(job_id, output_path); return True
sync_success(c) ==
  /\ AtStage(c, "success")
  /\ \E ok \in StoreOutcomes :
       /\ jobs' = update_job_success(jobs, Frame(c).job, Frame(c).output_path[1], ok)
       /\ commits' = Committed(commits, Frame(c).job, ok)
  /\ calls' = [calls EXCEPT ![c].pc = "finally", ![c].pending = "true"]
  /\ UNCHANGED <<languages, videos, files, queue, env_faulty, observed>>

\* AfterFinally for a finally clause that ends in 'return True': the return
\* replaces a pending exception
AfterFinally_ReturnInFinally(frame) ==
  [frame EXCEPT !.pc = "returned",
                !.ret = IF frame.pending = "raise" THEN "true" ELSE frame.pending]

\* The frame after the finally clause ran without raising: the pending
\* return value is returned, a pending exception goes on to the handler.
AfterFinally(frame) ==
  IF frame.pending = "raise"
    THEN [frame EXCEPT !.pc = "except"]
    ELSE [frame EXCEPT !.pc = "returned", !.ret = frame.pending]

\* sync_finally for a finally clause that also unlinks the file of
\* _generate_ai_speech
sync_finally_CleansSpeech(c) ==
  /\ AtStage(c, "finally")
  /\ files' = files \ {Wav(c), Mp3(c)}
  /\ calls' = [calls EXCEPT ![c] = AfterFinally(@)]
  /\ UNCHANGED <<languages, videos, jobs, commits, queue, env_faulty, observed>>

\* finally: if Path(audio_path).exists(): Path(audio_path).unlink()
\* An OSError raised here replaces the pending return.
sync_finally(c) ==
  /\ AtStage(c, "finally")
  /\ IF Wav(c) \in files
       THEN \E unlinked \in UnlinkOutcomes :
              IF unlinked
                THEN /\ files' = files \ {Wav(c)}
                     /\ calls' = [calls EXCEPT ![c] = AfterFinally(@)]
                ELSE /\ files' = files
                     /\ calls' = [calls EXCEPT ![c].pc = "except", ![c].pending = "raise",
                                               ![c].exc = Some(UnlinkError)]
       ELSE /\ files' = files
            /\ calls' = [calls EXCEPT ![c] = AfterFinally(@)]
  /\ UNCHANGED <<languages, videos, jobs, commits, queue, env_faulty, observed>>

\* sync_except without the handler: the exception leaves _process_dubbing_sync
sync_except_reraise(c) ==
  /\ AtStage(c, "except")
  /\ calls' = [calls EXCEPT ![c].pc = "returned", ![c].ret = "raised"]
  /\ UNCHANGED <<languages, videos, jobs, commits, files, queue, env_faulty, observed>>

\* except Exception as e: self._update_job_error(job_id, str(e)); return False
sync_except(c) ==
  /\ AtStage(c, "except")
  /\ \E ok \in StoreOutcomes :
       /\ jobs' = update_job_error(jobs, Frame(c).job, Frame(c).exc[1], ok)
       /\ commits' = Committed(commits, Frame(c).job, ok)
  /\ calls' = [calls EXCEPT ![c].pc = "returned", ![c].ret = "false"]
  /\ UNCHANGED <<languages, videos, files, queue, env_faulty, observed>>

\* process_dubbing_job after its await: return success. An exception out of
\* the executor's future would go to the except clause.
process_dubbing_job_resume(c) ==
  /\ AtStage(c, "returned")
  /\ Frame(c).handle = "pending"
  /\ \E ok \in StoreOutcomes :
       IF Frame(c).ret = "raised"
         THEN /\ jobs' = update_job_error(jobs, Frame(c).job, Frame(c).exc[1], ok)
              /\ commits' = Committed(commits, Frame(c).job, ok)
              /\ calls' = [calls EXCEPT ![c].pc = "resolved", ![c].handle = HandleAfterException]
         ELSE /\ calls' = [calls EXCEPT ![c].pc = "resolved", ![c].handle = Frame(c).ret]
              /\ UNCHANGED <<jobs, commits>>
  /\ UNCHANGED <<languages, videos, files, queue, env_faulty, observed>>

\* ---------------------------------------------------- format_duration
\* A string is the sequence of its characters.
DigitChars == <<"0", "1", "2", "3", "4", "5", "6", "7", "8", "9">>
IsDigit(ch) == \E i \in DOMAIN DigitChars : DigitChars[i] = ch
DigitValue(ch) == (CHOOSE i \in DOMAIN DigitChars : DigitChars[i] = ch) - 1

\* str(n) of an int n >= 0
RECURSIVE Digits(_)
Digits(n) ==
  IF n < 10 THEN <<DigitChars[n + 1]>>
            ELSE Append(Digits(n \div 10), DigitChars[(n % 10) + 1])

\* the number a string of digits writes; 0 for the empty string
RECURSIVE IntOf(_)
IntOf(s) ==
  IF s = <<>> THEN 0
              ELSE IntOf(SubSeq(s, 1, Len(s) - 1)) * 10 + DigitValue(s[Len(s)])

\* The values format_duration is called with are records [kind, whole,
\* frac, text]: an int, a Decimal written whole.frac, the float of text
\* "inf", None, a str.
\* str(duration_seconds)
Str(d) ==
  CASE d.kind = "int" -> Digits(d.whole)
    [] d.kind = "Decimal" -> Digits(d.whole) \o <<".">> \o d.frac
    [] d.kind = "float" -> d.text
    [] d.kind = "NoneType" -> <<"N", "o", "n", "e">>
    [] d.kind = "str" -> d.text

\* float(s) accepts digits with at most one point among them (and at least
\* one digit), "inf" and "nan"; anything else is a ValueError.
Points(s) == {i \in DOMAIN s : s[i] = "."}
IsLiteral(s) ==
  /\ \A i \in DOMAIN s : IsDigit(s[i]) \/ s[i] = "."
  /\ Cardinality(Points(s)) <= 1
  /\ \E i \in DOMAIN s : IsDigit(s[i])
WholePart(s) ==
  IF Points(s) = {} THEN s ELSE SubSeq(s, 1, (CHOOSE i \in Points(s) : TRUE) - 1)
FracPart(s) ==
  IF Points(s) = {} THEN <<>> ELSE SubSeq(s, (CHOOSE i \in Points(s) : TRUE) + 1, Len(s))

\* the number of binary digits of n >= 0
RECURSIVE BitLen(_)
BitLen(n) == IF n = 0 THEN 0 ELSE BitLen(n \div 2) + 1

\* float(s) is the double nearest to the number s writes; a double has 53
\* binary digits. Just below whole + 1 two doubles are 2^(BitLen(whole) - 53)
\* apart, so the number whole.99...9 with k nines, which is 10^-k below
\* whole + 1, becomes the double whole + 1 when 10^-k is less than half of
\* that, i.e. when k * log2(10) > 54 - BitLen(whole). (Exact for a fraction
\* that is all nines or has no more than fourteen digits.)
RoundsUp(whole, frac) ==
  /\ frac # <<>>
  /\ \A i \in DOMAIN frac : frac[i] = "9"
  /\ Len(frac) * 33219 > (54 - BitLen(whole)) * 10000

\* int(float(s)) for a literal s: the whole part of that double
IntOfFloat(s) ==
  IF RoundsUp(IntOf(WholePart(s)), FracPart(s))
    THEN IntOf(WholePart(s)) + 1
    ELSE IntOf(WholePart(s))

\* f"{n:02d}" for n >= 0
Pad2(n) == IF n < 10 THEN <<"0">> \o Digits(n) ELSE Digits(n)

Unknown == <<"U", "n", "k", "n", "o", "w", "n">>
\* int(float("inf")) raises OverflowError, which is neither ValueError nor
\* TypeError: it leaves format_duration
OverflowRaised == <<"raised", "OverflowError">>

\* format_duration: float(str(duration_seconds)), int(), // 60 and % 60,
\* f"{minutes:02d}:{seconds:02d}"; "Unknown" on ValueError (float() of a
\* string that is no number, int() of nan) and TypeError
format_duration(d) ==
  LET s == Str(d) IN
  IF s = <<"i", "n", "f">> THEN OverflowRaised
  ELSE IF s = <<"n", "a", "n">> \/ ~IsLiteral(s) THEN Unknown
  ELSE LET total_seconds == IntOfFloat(s) IN
       Pad2(total_seconds \div 60) \o <<":">> \o Pad2(total_seconds % 60)

\* A caller formats a duration and keeps the text.
show_duration(d) ==
  /\ observed' = Some(<<"format_duration", d, format_duration(d)>>)
  /\ UNCHANGED <<languages, videos, jobs, commits, files, calls, queue, env_faulty>>

\* ------------------------------------------------------- specifications
\* The arguments the callers pass: ids of rows that exist, and one that does not.
SourceLanguageInputs == {1}
TargetLanguageInputs == {1, 2}
JobInputs == ((DOMAIN videos) \X (TargetLanguageInputs \cup {NoSuchId}))
               \cup ({NoSuchId} \X TargetLanguageInputs)
JobIdInputs == (DOMAIN jobs) \cup {NoSuchId}

\* One step of a frame of _process_dubbing_sync on the executor.
Pipeline(c) ==
  \/ worker_take(c)
  \/ sync_load(c)
  \/ sync_extract(c)
  \/ sync_transcribe(c)
  \/ sync_translate(c)
  \/ sync_synthesize(c)
  \/ sync_mux(c)
  \/ sync_success(c)
  \/ sync_finally(c)
  \/ sync_except(c)

Next ==
  \/ \E ts \in Timestamps, l \in SourceLanguageInputs : save_video(ts, l)
  \/ \E in \in JobInputs : create_dubbing_job(in[1], in[2])
  \/ \E j \in JobIdInputs : submit(j)
  \/ \E c \in DOMAIN calls : worker_take(c)
  \/ \E c \in DOMAIN calls : sync_load(c)
  \/ \E c \in DOMAIN calls : sync_extract(c)
  \/ \E c \in DOMAIN calls : sync_transcribe(c)
  \/ \E c \in DOMAIN calls : sync_translate(c)
  \/ \E c \in DOMAIN calls : sync_synthesize(c)
  \/ \E c \in DOMAIN calls : sync_mux(c)
  \/ \E c \in DOMAIN calls : sync_success(c)
  \/ \E c \in DOMAIN calls : sync_finally(c)
  \/ \E c \in DOMAIN calls : sync_except(c)
  \/ \E c \in DOMAIN calls : process_dubbing_job_resume(c)

Spec == Init /\ [][Next]_vars

\* Callers that may call process_dubbing_job again with the same job id.
NextResubmit ==
  \/ Next
  \/ \E j \in JobIdInputs : resubmit(j)

SpecResubmit == Init /\ [][NextResubmit]_vars

\* The language queries, on any languages table.
LanguageIdInputs == (DOMAIN languages) \cup {NoSuchId}

NextLanguages ==
  \/ read_languages
  \/ \E l \in LanguageIdInputs : read_target_languages(l)

SpecLanguages == InitLanguages /\ [][NextLanguages]_vars

\* Callers that also call _process_dubbing_sync directly.
NextDirect ==
  \/ Next
  \/ \E j \in JobIdInputs : process_dubbing_sync(j)

SpecDirect == Init /\ [][NextDirect]_vars

\* Callers that also read the job records and remove output files.
VideoIdInputs == {None} \cup {Some(v) : v \in (DOMAIN videos) \cup {NoSuchId}}

NextQueries ==
  \/ Next
  \/ \E j \in JobIdInputs : read_job(j)
  \/ \E j \in JobIdInputs : read_output_file_path(j)
  \/ \E path \in files : remove_output(path)

SpecQueries == Init /\ [][NextQueries]_vars

\* The service and its queries on a store that enforces the foreign keys.
NextStore ==
  \/ \E ts \in Timestamps, l \in SourceLanguageInputs : save_video(ts, l)
  \/ \E in \in JobInputs : create_dubbing_job_checked(in[1], in[2])
  \/ \E j \in JobIdInputs : submit(j)
  \/ \E c \in DOMAIN calls : worker_take(c)
  \/ \E c \in DOMAIN calls : sync_load(c)
  \/ \E c \in DOMAIN calls : sync_extract(c)
  \/ \E c \in DOMAIN calls : sync_transcribe(c)
  \/ \E c \in DOMAIN calls : sync_translate(c)
  \/ \E c \in DOMAIN calls : sync_synthesize(c)
  \/ \E c \in DOMAIN calls : sync_mux(c)
  \/ \E c \in DOMAIN calls : sync_success(c)
  \/ \E c \in DOMAIN calls : sync_finally(c)
  \/ \E c \in DOMAIN calls : sync_except(c)
  \/ \E c \in DOMAIN calls : process_dubbing_job_resume(c)
  \/ \E j \in JobIdInputs : read_job(j)
  \/ \E v \in VideoIdInputs : read_jobs(v)
  \/ \E j \in JobIdInputs : read_output_file_path(j)

SpecStore == Init /\ [][NextStore]_vars

\* The UI's users start several jobs on the uploaded video: the options of
\* the target select are get_target_languages of the video's source
\* language, of which the users pick Spanish or French.
TargetSelectInputs(video_id) ==
  Members(get_target_languages(videos[video_id].source_language_id)) \cap {2, 3}

NextBatch ==
  \/ \E ts \in Timestamps, l \in SourceLanguageInputs : save_video(ts, l)
  \/ \E v \in DOMAIN videos : \E l \in TargetSelectInputs(v) : start_dubbing(v, l)
  \/ \E j \in DOMAIN jobs : submit(j)
  \/ \E c \in DOMAIN calls : worker_take(c)
  \/ \E c \in DOMAIN calls : sync_load(c)
  \/ \E c \in DOMAIN calls : sync_extract(c)
  \/ \E c \in DOMAIN calls : sync_transcribe(c)
  \/ \E c \in DOMAIN calls : sync_translate(c)
  \/ \E c \in DOMAIN calls : sync_synthesize(c)
  \/ \E c \in DOMAIN calls : sync_mux(c)
  \/ \E c \in DOMAIN calls : sync_success(c)
  \/ \E c \in DOMAIN calls : sync_finally(c)
  \/ \E c \in DOMAIN calls : sync_except(c)
  \/ \E c \in DOMAIN calls : process_dubbing_job_resume(c)

SpecBatch == Init /\ [][NextBatch]_vars

\* Callers that create more than one job, run them and list the jobs.
NextList ==
  \/ \E ts \in Timestamps, l \in SourceLanguageInputs : save_video(ts, l)
  \/ \E in \in JobInputs : insert_dubbing_job(MaxListed, in[1], in[2])
  \/ \E j \in JobIdInputs : submit(j)
  \/ \E c \in DOMAIN calls : worker_take(c)
  \/ \E c \in DOMAIN calls : sync_load(c)
  \/ \E c \in DOMAIN calls : sync_extract(c)
  \/ \E c \in DOMAIN calls : sync_transcribe(c)
  \/ \E c \in DOMAIN calls : sync_translate(c)
  \/ \E c \in DOMAIN calls : sync_synthesize(c)
  \/ \E c \in DOMAIN calls : sync_mux(c)
  \/ \E c \in DOMAIN calls : sync_success(c)
  \/ \E c \in DOMAIN calls : sync_finally(c)
  \/ \E c \in DOMAIN calls : sync_except(c)
  \/ \E c \in DOMAIN calls : process_dubbing_job_resume(c)
  \/ \E v \in VideoIdInputs : read_jobs(v)

SpecList == Init /\ [][NextList]_vars

\* The service and all its queries in an environment whose store may raise.
NextQueriesFaults ==
  \/ NextQueries
  \/ \E v \in VideoIdInputs : read_jobs(v)
  \/ read_languages
  \/ \E l \in LanguageIdInputs : read_target_languages(l)

SpecQueriesFaults == InitStoreFaults /\ [][NextQueriesFaults]_vars

\* The uploads of the UI: any languages table, the MIME types a browser or a
\* client may send, and a clock that shows one of two seconds.
MimeInputs == {<<"video", "mp4">>, <<"text", "plain">>, <<"application", "video">>,
               <<"Video", "mp4">>, <<"", "">>}
ClockSeconds == Timestamps \cup {"20240101_120001"}

NextUploads ==
  \E select \in SourceSelectInputs, type \in MimeInputs, ts \in ClockSeconds :
    handle_upload(select, type, ts)

SpecUploads == InitLanguages /\ [][NextUploads]_vars

\* The durations that are formatted: whole seconds up to MaxDuration and
\* around an hour and a hundred minutes, as an int and as a Decimal with one
\* or two decimals (the Video model keeps two) or with fifteen or seventeen;
\* float("inf"); None; the strings of the tests and of float's special values.
DurationInputs ==
  LET Value(kind, whole, frac, text) ==
        [kind |-> kind, whole |-> whole, frac |-> frac, text |-> text]
      Nines(k) == [i \in 1..k |-> "9"]
      Seconds == (0..MaxDuration) \cup {3599, 3600, 3601, 5999, 6000, 6001, 36000}
      Fractions == {<<"5">>, <<"0", "0">>, <<"5", "0">>, <<"9", "9">>, Nines(15), Nines(17)}
      Texts == {<<"i", "n", "v", "a", "l", "i", "d">>, <<>>, <<"1", ".", "2", ".", "3">>,
                <<"n", "a", "n">>, <<"i", "n", "f">>, <<"9", "0">>} IN
  {Value("int", n, <<>>, <<>>) : n \in Seconds}
    \cup {Value("Decimal", n, f, <<>>) : n \in Seconds, f \in Fractions}
    \cup {Value("float", 0, <<>>, <<"i", "n", "f">>), Value("NoneType", 0, <<>>, <<>>)}
    \cup {Value("str", 0, <<>>, t) : t \in Texts}

SpecDuration == Init /\ [][\E d \in DurationInputs : show_duration(d)]_vars

\* The UI's page: uploads, clicks on Start Dubbing, the monitor tasks and
\* the workers.
NextUI ==
  \/ \E ts \in Timestamps, l \in SourceLanguageInputs : save_video(ts, l)
  \/ \E v \in DOMAIN videos : \E l \in TargetSelectInputs(v) : start_dubbing_task(v, l)
  \/ \E c \in DOMAIN calls : monitor_dubbing_job(c)
  \/ \E c \in DOMAIN calls : worker_take(c)
  \/ \E c \in DOMAIN calls : sync_load(c)
  \/ \E c \in DOMAIN calls : sync_extract(c)
  \/ \E c \in DOMAIN calls : sync_transcribe(c)
  \/ \E c \in DOMAIN calls : sync_translate(c)
  \/ \E c \in DOMAIN calls : sync_synthesize(c)
  \/ \E c \in DOMAIN calls : sync_mux(c)
  \/ \E c \in DOMAIN calls : sync_success(c)
  \/ \E c \in DOMAIN calls : sync_finally(c)
  \/ \E c \in DOMAIN calls : sync_except(c)
  \/ \E c \in DOMAIN calls : process_dubbing_job_resume(c)

SpecUI == Init /\ [][NextUI]_vars

\* startup() is called, once or again after a restart.
SpecStartup == InitStartup /\ [][initialize_languages]_vars

SpecFaults == InitStoreFaults /\ [][Next]_vars

\* The workers run: a pipeline step that stays enabled is eventually taken.
\* Every adapter call is bounded by a timeout, so each step returns.
LiveSpec == Spec /\ WF_vars(\E c \in DOMAIN calls : Pipeline(c))

\* The same workers when several jobs were started.
LiveBatch == SpecBatch /\ WF_vars(\E c \in DOMAIN calls : Pipeline(c))

\* ------------------------------------------------------------ properties
Terminal == {COMPLETED, FAILED}
Finished(c) == calls[c].pc \in {"returned", "resolved"}
FramesOf(j) == {c \in DOMAIN calls : c[1] = j}
ResolvesRefs(j) ==
  /\ jobs[j].source_video_id \in DOMAIN videos
  /\ jobs[j].target_language_id \in DOMAIN languages
\* the stages frame c has invoked, and the one that returned None, if any
Invoked(c) == {calls[c].stages[i][1] : i \in DOMAIN calls[c].stages}
AbsentStages(c) ==
  {calls[c].stages[i][1] : i \in {n \in DOMAIN calls[c].stages : calls[c].stages[n][2] = "absent"}}
AllStagesOk(c) == calls[c].stages = [k \in 1..5 |-> <<k, "ok">>]

\* C1: a job's status changes only Pending -> Processing and then
\* Processing -> Completed or Processing -> Failed, and its row is written
\* at no more than two points (the start write and one terminal write).
C1_MonotonicTwoWrites ==
  [][\A j \in DOMAIN jobs :
       /\ jobs'[j].status # jobs[j].status =>
            <<jobs[j].status, jobs'[j].status>> \in
              {<<PENDING, PROCESSING>>, <<PROCESSING, COMPLETED>>, <<PROCESSING, FAILED>>}
       /\ commits'[j] <= 2]_vars

\* C2: if stage k returned None, no later stage was invoked by that frame
\* and, once the frame has returned, the job is Failed with exactly the
\* label of stage k as its error message.
C2_StageFailureLabel ==
  \A c \in DOMAIN calls : \A k \in AbsentStages(c) :
    /\ \A m \in Invoked(c) : m <= k
    /\ Finished(c) =>
         /\ jobs[c[1]].status = FAILED
         /\ jobs[c[1]].error_message = Some(StageLabel[k])

\* C3: the stages a frame has invoked are 1..n in pipeline order, each one
\* invoked only after all earlier ones returned a result; a job is Completed
\* only by a frame in which all five returned a result; and at most one
\* frame of a job is on a worker.
C3_StageOrder ==
  /\ \A c \in DOMAIN calls :
       \A i \in DOMAIN calls[c].stages :
         /\ calls[c].stages[i][1] = i
         /\ i < Len(calls[c].stages) => calls[c].stages[i][2] = "ok"
  /\ \A j \in DOMAIN jobs :
       /\ jobs[j].status = COMPLETED => \E c \in FramesOf(j) : AllStagesOk(c)
       /\ Cardinality(FramesOf(j) \cap Running) <= 1

\* a job was Completed after all five stages ran in order
C3_Witness ==
  \E c \in DOMAIN calls :
    /\ c[1] \in DOMAIN jobs
    /\ jobs[c[1]].status = COMPLETED
    /\ AllStagesOk(c)
    /\ calls[c].pc = "resolved"

C5_OutputIffCompleted ==
  \A j \in DOMAIN jobs :
    IF jobs[j].status = COMPLETED
      THEN /\ jobs[j].output_filename # None
           /\ jobs[j].output_file_path # None
           /\ jobs[j].output_file_size # None
      ELSE /\ jobs[j].output_filename = None
           /\ jobs[j].output_file_path = None
           /\ jobs[j].output_file_size = None

\* C6: the error message is populated if and only if the status is Failed.
C6_ErrorIffFailed ==
  \A j \in DOMAIN jobs : (jobs[j].error_message # None) <=> (jobs[j].status = FAILED)

\* a job whose translation returned None is Failed and carries the label
C6_Witness ==
  \E c \in DOMAIN calls :
    /\ c[1] \in DOMAIN jobs
    /\ Finished(c)
    /\ jobs[c[1]].status = FAILED
    /\ jobs[c[1]].error_message = Some(StageLabel[3])

\* C7: once a job is Completed or Failed no step changes its row.
C7_TerminalImmutable ==
  [][\A j \in DOMAIN jobs : jobs[j].status \in Terminal => jobs'[j] = jobs[j]]_vars

\* C8: once the frame of a job has returned and the job is Completed or
\* Failed, the frame's extracted-audio file is not on disk.
C8_NoAudioFileLeft ==
  \A c \in DOMAIN calls :
    (Finished(c) /\ c[1] \in DOMAIN jobs /\ jobs[c[1]].status \in Terminal)
      => Wav(c) \notin files

C10_HandleBoolean ==
  \A c \in DOMAIN calls :
    /\ calls[c].handle \in {"pending", "true", "false"}
    /\ calls[c].pc = "resolved" => calls[c].handle \in {"true", "false"}

\* the handle of a call whose hand-over to the executor raised is False
C10_Witness ==
  \E c \in DOMAIN calls :
    /\ c[1] \in DOMAIN jobs
    /\ calls[c].pc = "resolved"
    /\ calls[c].handle = "false"
    /\ jobs[c[1]].error_message = Some(SchedulerError)

\* C11: at most max_workers frames of _process_dubbing_sync are on a worker
\* thread, however many calls were made; the calls in the executor's queue
\* are exactly the scheduled ones no worker has taken, and a call leaves the
\* queue only for a free worker.
C11_PoolBound ==
  /\ Cardinality(Running) <= max_workers
  /\ Queued = {queue[i] : i \in DOMAIN queue}
  /\ Queued \cap Running = {}

\* both workers are busy and a third call waits in the queue
C11_Witness ==
  /\ Cardinality(Running) = max_workers
  /\ queue # <<>>

\* C12: no two calls for the same job id are queued or running at once.
C12_OneExecutionPerJob ==
  \A c, d \in Queued \cup Running : c[1] = d[1] => c = d
\* the calls that process_dubbing_job handed to the executor
Scheduled ==
  {c \in DOMAIN calls : calls[c].pc \in {"queued"} \cup OnWorker \/ calls[c].ret # "none"}

\* C13: for every call handed to the executor, the write of PROCESSING and
\* of processing_started_at is committed before its frame is queued, so from
\* then on get_dubbing_job never shows the job as PENDING.
C13_ProcessingBeforeBody ==
  \A c \in Scheduled :
    /\ c[1] \in DOMAIN jobs
    /\ commits[c[1]] >= 1
    /\ get_dubbing_job(c[1]) # None
    /\ get_dubbing_job(c[1])[1].status # PENDING
    /\ get_dubbing_job(c[1])[1].processing_started_at # None

\* a frame waits in the queue and its job already reads PROCESSING
C13_Witness ==
  \E c \in Queued :
    /\ get_dubbing_job(c[1]) # None
    /\ get_dubbing_job(c[1])[1].status = PROCESSING
\* C14: while a frame of _process_dubbing_sync is queued or on a worker, its
\* call has given control back (the handle is pending) and the callers can
\* make further calls of process_dubbing_job and every status read.
C14_SubmitterNotBlocked ==
  (Queued \cup Running # {}) =>
    /\ \A c \in Queued \cup Running : calls[c].handle = "pending"
    /\ \A j \in JobIdInputs :
         /\ ENABLED process_dubbing_job(j)
         /\ ENABLED read_job(j)
         /\ ENABLED read_output_file_path(j)
    /\ \A v \in VideoIdInputs : ENABLED read_jobs(v)

\* a caller read the job as PROCESSING and its frame is still on a worker
C14_Witness ==
  \E c \in Running :
    /\ observed # None
    /\ observed[1][1] = "get_dubbing_job"
    /\ observed[1][2] = c[1]
    /\ observed[1][3] # None
    /\ observed[1][3][1].status = PROCESSING
\* C15: once a frame in which all five stages returned a result has
\* returned, its job is COMPLETED with output filename, path and size and
\* processing_completed_at set and no error message, and the filename is
\* <stem of the video's file>_dubbed_<language code>_<timestamp>.mp4.
C15_FullSuccessCompleted ==
  \A c \in DOMAIN calls :
    (AllStagesOk(c) /\ Finished(c)) =>
      LET job == jobs[c[1]] IN
      /\ job.status = COMPLETED
      /\ job.output_file_path # None
      /\ job.output_file_size # None
      /\ job.processing_completed_at # None
      /\ job.error_message = None
      /\ \E ts \in Timestamps :
           job.output_filename =
             Some(<<Stem(videos[job.source_video_id].file_path), "dubbed",
                    languages[job.target_language_id].code, ts, ".mp4">>)
\* C16: in every state, get_output_file_path gives a path only for a job that
\* is COMPLETED now and whose output file is on disk now; for a job that is
\* PENDING, PROCESSING or FAILED, for a job id that does not exist, and once
\* the file has been removed, it gives None.
C16_OutputPathOnlyWhenPresent ==
  \A j \in JobIdInputs :
    LET r == get_output_file_path(j) IN
    /\ r # None =>
         /\ j \in DOMAIN jobs
         /\ jobs[j].status = COMPLETED
         /\ r = jobs[j].output_file_path
         /\ r[1] \in files
    /\ (j \in DOMAIN jobs /\ jobs[j].status \in {PENDING, PROCESSING, FAILED}) => r = None
    /\ (j \in DOMAIN jobs /\ jobs[j].output_file_path # None
          /\ jobs[j].output_file_path[1] \notin files) => r = None

\* the output file of a COMPLETED job is gone and the last call of
\* get_output_file_path for it gave None
C16_Witness ==
  \E j \in DOMAIN jobs :
    /\ jobs[j].status = COMPLETED
    /\ jobs[j].output_file_path # None
    /\ jobs[j].output_file_path[1] \notin files
    /\ observed = Some(<<"get_output_file_path", j, None>>)
\* ids of no row: the one the tests use and the next ones not yet given out
MissingJobIds == (JobIdInputs \cup (1..MaxJobs)) \ DOMAIN jobs
MissingVideoIds == ({NoSuchId} \cup (1..MaxVideos)) \ DOMAIN videos

Returned(c) == IF calls[c].handle = "direct" THEN calls[c].ret ELSE calls[c].handle

\* C18: a call of process_dubbing_job or _process_dubbing_sync for a job id
\* of no row, or for a job whose video or language row is missing, gives
\* False; and no step of a call for a job id of no row changes any table.
C18_UnresolvedGivesFalse ==
  [][/\ \A c \in DOMAIN calls' :
          ((calls'[c].pc = "resolved" \/ (calls'[c].pc = "returned" /\ calls'[c].handle = "direct"))
            /\ (c[1] \notin DOMAIN jobs' \/ ~ResolvesRefs(c[1])'))
          => Returned(c)' = "false"
     /\ (\E c \in DOMAIN calls' : c[1] \notin DOMAIN jobs' /\ (c \notin DOMAIN calls \/ calls'[c] # calls[c]))
          => /\ jobs' = jobs
             /\ videos' = videos
             /\ languages' = languages]_vars

\* a direct call for a job id of no row has returned False, and a job whose
\* language row is missing has been run to the end
C18_Witness ==
  /\ \E c \in DOMAIN calls :
       /\ c[1] \notin DOMAIN jobs
       /\ calls[c].handle = "direct"
       /\ calls[c].pc = "returned"
       /\ calls[c].ret = "false"
  /\ \E c \in DOMAIN calls :
       /\ c[1] \in DOMAIN jobs
       /\ jobs[c[1]].target_language_id \notin DOMAIN languages
       /\ calls[c].exc = Some(AttrCode)
       /\ Finished(c)
ActiveLanguages == {l \in DOMAIN languages : languages[l].is_active}

\* C19: what get_target_languages(source_language_id) returned is exactly
\* the active languages whose id is not source_language_id, each once; for
\* an id of no active language that is every active language; an inactive
\* language is never in it.
C19_TargetLanguages ==
  (observed # None /\ observed[1][1] = "get_target_languages") =>
    LET source_language_id == observed[1][2]
        result == observed[1][3] IN
    /\ Members(result) = ActiveLanguages \ {source_language_id}
    /\ Len(result) = Cardinality(Members(result))
    /\ source_language_id \notin ActiveLanguages => Members(result) = Members(get_languages)
    /\ \A l \in Members(result) : languages[l].is_active

\* with an inactive language in the table, the targets of an active one
\* were asked for and some language was returned
C19_Witness ==
  /\ observed # None
  /\ observed[1][1] = "get_target_languages"
  /\ observed[1][2] \in ActiveLanguages
  /\ observed[1][3] # <<>>
  /\ ActiveLanguages # DOMAIN languages
\* C20: a step that adds to the jobs table adds one row, PENDING, with the
\* video and target language of some call of create_dubbing_job and no
\* output field, error message or timestamp, and leaves every row that was
\* there and the other tables as they were; and while there is room for a
\* job, create_dubbing_job accepts every video with its own source language
\* as the target.
C20_CreateJob ==
  [][/\ Len(jobs') # Len(jobs) =>
          /\ Len(jobs') = Len(jobs) + 1
          /\ \A j \in DOMAIN jobs : jobs'[j] = jobs[j]
          /\ videos' = videos
          /\ languages' = languages
          /\ LET job == jobs'[Len(jobs')] IN
             /\ <<job.source_video_id, job.target_language_id>> \in JobInputs
             /\ job.status = PENDING
             /\ job.output_filename = None
             /\ job.output_file_path = None
             /\ job.output_file_size = None
             /\ job.error_message = None
             /\ job.processing_started_at = None
             /\ job.processing_completed_at = None
     /\ Len(jobs) < MaxJobs =>
          \A v \in DOMAIN videos :
            ENABLED create_dubbing_job(v, videos[v].source_language_id)]_vars

\* a job whose target language is the source language of its video
C20_Witness ==
  \E j \in DOMAIN jobs :
    /\ jobs[j].source_video_id \in DOMAIN videos
    /\ jobs[j].target_language_id = videos[jobs[j].source_video_id].source_language_id
    /\ jobs[j].status = PENDING
\* the tables and the files
Store == <<languages, videos, jobs, commits, files>>

\* C21: a call of get_dubbing_job leaves every table and file as it was and
\* returns the row as it is at the call (None for an id of no row); and
\* across any step that does not change the row of a job id, the call
\* returns the same data.
C21_GetIsPure ==
  [][/\ (observed' # observed /\ observed'[1][1] = "get_dubbing_job") =>
          /\ Store' = Store
          /\ calls' = calls
          /\ queue' = queue
          /\ observed'[1][3] = get_dubbing_job(observed'[1][2])
     /\ \A j \in JobIdInputs :
          (j \in DOMAIN jobs => jobs'[j] = jobs[j]) =>
            get_dubbing_job(j)' = get_dubbing_job(j)]_vars

\* a caller read a job after its frame had finished, and the job's row is
\* still what the caller was given
C21_Witness ==
  \E c \in DOMAIN calls :
    /\ Finished(c)
    /\ c[1] \in DOMAIN jobs
    /\ jobs[c[1]].status \in Terminal
    /\ observed = Some(<<"get_dubbing_job", c[1], Some(jobs[c[1]])>>)
\* the jobs a call get_dubbing_jobs(video_id) is to return
JobsOf(video_id) ==
  IF video_id = None
    THEN DOMAIN jobs
    ELSE {j \in DOMAIN jobs : jobs[j].source_video_id = video_id[1]}

\* C22: in every state get_dubbing_jobs(video_id) is exactly the jobs whose
\* source video is video_id, each once and whatever its status, and
\* get_dubbing_jobs() is every job; and what a caller was given by
\* get_dubbing_jobs is that list as of the call.
C22_ListByVideo ==
  [][/\ \A v \in VideoIdInputs :
          /\ Members(get_dubbing_jobs(v)) = JobsOf(v)
          /\ Len(get_dubbing_jobs(v)) = Cardinality(JobsOf(v))
     /\ (observed' # observed /\ observed'[1][1] = "get_dubbing_jobs") =>
          /\ jobs' = jobs
          /\ Members(observed'[1][3]) = JobsOf(observed'[1][2])
          /\ Len(observed'[1][3]) = Cardinality(JobsOf(observed'[1][2]))]_vars

\* a caller listed the jobs of a video and was given two jobs with different
\* target languages, one of them COMPLETED
C22_Witness ==
  \E v \in DOMAIN videos :
    /\ observed = Some(<<"get_dubbing_jobs", Some(v), <<1, 2>> >>)
    /\ Len(jobs) = 2
    /\ jobs[1].source_video_id = v
    /\ jobs[2].source_video_id = v
    /\ jobs[1].target_language_id # jobs[2].target_language_id
    /\ \E j \in DOMAIN jobs : jobs[j].status = COMPLETED
\* C23: with more jobs submitted than the executor has workers, every
\* submitted job eventually has status Completed or Failed, and the status a
\* finished frame left depends only on what its own stages returned: two
\* finished frames whose stages returned the same have jobs of the same status.
C23_SaturatedPoolIndependent ==
  /\ \A j \in 1..MaxBatch :
       (j \in DOMAIN jobs /\ j \in Submitted)
         ~> (j \in DOMAIN jobs /\ jobs[j].status \in Terminal)
  /\ [](\A c, d \in DOMAIN calls :
         (Finished(c) /\ Finished(d) /\ calls[c].stages = calls[d].stages)
           => jobs[c[1]].status = jobs[d[1]].status)
\* C24: any two frames of different jobs whose mux stage has named an output
\* file have named different files.
C24_OutputPathsDistinct ==
  \A c, d \in DOMAIN calls :
    (c[1] # d[1] /\ calls[c].output_path # None /\ calls[d].output_path # None)
      => calls[c].output_path # calls[d].output_path
C26_AdaptersAbsorbFaults ==
  /\ \A e \in ToolEvents \ {"done"} :
       extract_audio(e) = "absent" /\ replace_video_audio(e) = "absent"
  /\ \A e \in ApiEvents \ {"done"} :
       transcribe_audio(e) = "absent" /\ translate_text(e) = "absent"
  /\ \A e \in SpeechEvents \ {"done"} : generate_ai_speech(e) = "absent"
  /\ \A k \in 1..5 : Returns(k) \subseteq Outcomes
  /\ \A c \in DOMAIN calls :
       /\ calls[c].exc # Some(AdapterError)
       /\ \A i \in DOMAIN calls[c].stages : calls[c].stages[i][2] \in Outcomes

\* a frame whose first four stages returned a result and whose mux stage
\* returned None has returned False
C26_Witness ==
  \E c \in DOMAIN calls :
    /\ Len(calls[c].stages) = 5
    /\ calls[c].stages[5] = <<5, "absent">>
    /\ calls[c].pc = "returned"
    /\ calls[c].ret = "false"
    /\ calls[c].exc = None
\* C27: with a store that may raise, no call of process_dubbing_job, no
\* frame of _process_dubbing_sync and no query lets an exception out: a
\* resolved handle is a boolean, a frame returns a boolean, what a caller
\* has from a query is the query's value; and a queued call is taken as
\* soon as a worker is free.
C27_StoreFaultsDegrade ==
  /\ \A c \in DOMAIN calls :
       /\ calls[c].ret \in {"none", "true", "false"}
       /\ calls[c].pc = "resolved" => calls[c].handle \in {"true", "false"}
  /\ (queue # <<>> /\ Cardinality(Running) < max_workers) => ENABLED worker_take(Head(queue))
  /\ observed # None => observed[1][3] # QueryRaised
\* C28: any two video records have different file_path values, and the file
\* of every video record is on disk.
C28_UniqueStoredFilename ==
  /\ \A v, w \in DOMAIN videos : v # w => videos[v].file_path # videos[w].file_path
  /\ \A v \in DOMAIN videos : videos[v].file_path \in files
\* the messages _update_job_error is called with: a stage's label, the text
\* of an exception, the one of the tests
ErrorMessages == {StageLabel[2], UnlinkError, "test error"}

\* C29: in every state, _update_job_error(job_id, message) on a job id of a
\* row gives the table in which that row has status FAILED, exactly message
\* as error_message and processing_completed_at set, and in which every
\* other row and every other field of that row is as before; on a job id of
\* no row, and when the store raises, it gives the table as it is.
C29_UpdateJobError ==
  \A id \in JobIdInputs : \A m \in ErrorMessages :
    LET after == update_job_error(jobs, id, m, TRUE) IN
    /\ update_job_error(jobs, id, m, FALSE) = jobs
    /\ DOMAIN after = DOMAIN jobs
    /\ id \notin DOMAIN jobs => after = jobs
    /\ id \in DOMAIN jobs =>
         /\ after[id].status = FAILED
         /\ after[id].error_message = Some(m)
         /\ after[id].processing_completed_at # None
         /\ after[id] = [jobs[id] EXCEPT !.status = FAILED,
                                          !.error_message = Some(m),
                                          !.processing_completed_at = after[id].processing_completed_at]
         /\ \A j \in DOMAIN jobs : j # id => after[j] = jobs[j]

\* _update_job_error has written the first of two jobs as FAILED with the
\* transcribe label while the second is still PROCESSING
C29_Witness ==
  /\ Len(jobs) = 2
  /\ jobs[1].status = FAILED
  /\ jobs[1].error_message = Some(StageLabel[2])
  /\ jobs[1].processing_completed_at # None
  /\ jobs[2].status = PROCESSING
  /\ jobs[2].error_message = None
\* the upload handler has just handled an upload whose MIME type does not
\* start with "video/"
WrongTypeHandled ==
  /\ observed' # observed
  /\ observed'[1][1] = "handle_upload"
  /\ observed'[1][2][2][1] # "video"

\* C30 as stated: every upload whose MIME type does not start with "video/"
\* is answered with "Please upload a video file" and leaves the video
\* records and the files as they were.
C30_WrongTypeMessage ==
  [][WrongTypeHandled =>
       /\ observed'[1][3] = "Please upload a video file"
       /\ videos' = videos
       /\ files' = files]_vars

\* C30: every upload whose MIME type does not start with "video/" leaves the
\* video records and the files as they were; it is answered with "Please
\* upload a video file" when a source language is selected and with "Please
\* select a source language first" when none is.
C30_WrongTypeRejected ==
  [][WrongTypeHandled =>
       /\ observed'[1][3] = IF observed'[1][2][1] = None
                              THEN "Please select a source language first"
                              ELSE "Please upload a video file"
       /\ videos' = videos
       /\ files' = files]_vars

\* after a video was uploaded, an upload of type text/plain was answered
\* with "Please upload a video file", and there is still the one video
C30_Witness ==
  /\ Len(videos) = 1
  /\ Cardinality(files) = 1
  /\ observed # None
  /\ observed[1][1] = "handle_upload"
  /\ observed[1][2][2] = <<"text", "plain">>
  /\ observed[1][3] = "Please upload a video file"
\* the value and the text of the last call of format_duration
Formatted == observed # None /\ observed[1][1] = "format_duration"
\* the text is MM:SS for the whole number of seconds total
IsMinutesSeconds(text, total) ==
  /\ Cardinality({i \in DOMAIN text : text[i] = ":"}) = 1
  /\ LET colon == CHOOSE i \in DOMAIN text : text[i] = ":"
         mm == SubSeq(text, 1, colon - 1)
         ss == SubSeq(text, colon + 1, Len(text)) IN
     /\ \A i \in DOMAIN mm : IsDigit(mm[i])
     /\ \A i \in DOMAIN ss : IsDigit(ss[i])
     /\ Len(mm) >= 2
     /\ Len(ss) >= 2
     /\ Len(mm) > 2 => mm[1] # "0"
     /\ IntOf(mm) = total \div 60
     /\ IntOf(ss) = total % 60

\* the part of C31 on an int or a Decimal with no more than two decimals, on
\* None and on a string that is no number
C31_OnStoredDurations ==
  Formatted =>
    LET d == observed[1][2]
        text == observed[1][3] IN
    /\ (d.kind = "int" \/ (d.kind = "Decimal" /\ Len(d.frac) <= 2)) =>
         IsMinutesSeconds(text, d.whole)
    /\ (d.kind = "NoneType" \/ (d.kind = "str" /\ ~IsLiteral(d.text) /\ d.text # <<"i", "n", "f">>)) =>
         text = Unknown

\* C31: format_duration(d) is "MM:SS" with MM = floor(d) div 60 and
\* SS = floor(d) mod 60, each of at least two digits, for every int, Decimal
\* or float d >= 0, and "Unknown" for None and for a value that is no
\* number; on every value it returns one of the two.
C31_FormatDuration ==
  Formatted =>
    LET d == observed[1][2]
        text == observed[1][3] IN
    /\ C31_OnStoredDurations
    /\ d.kind = "Decimal" => IsMinutesSeconds(text, d.whole)
    /\ text # OverflowRaised
\* C32: when the handle of process_dubbing_job(job_id) for a job that exists
\* resolves, it is True if and only if the job's status is then COMPLETED
\* and False if and only if it is then FAILED; it is never True while the
\* row still reads PROCESSING.
C32_HandleMatchesStatus ==
  [][\A c \in {r \in DOMAIN calls' : /\ calls'[r].pc = "resolved"
                                     /\ r \notin DOMAIN calls \/ calls[r].pc # "resolved"} :
       c[1] \in DOMAIN jobs' =>
         /\ calls'[c].handle = "true" <=> jobs'[c[1]].status = COMPLETED
         /\ calls'[c].handle = "false" <=> jobs'[c[1]].status = FAILED]_vars
\* C33: a frame of a job whose video row or language row is missing invokes
\* no stage adapter (it fails the job before the extract stage), and neither
\* does a frame of a job id of no row.
C33_NoStageForUnresolved ==
  \A c \in DOMAIN calls :
    (c[1] \notin DOMAIN jobs \/ ~ResolvesRefs(c[1])) => Invoked(c) = {}
\* the statements of process_dubbing_job and _process_dubbing_sync in the
\* order in which a call passes them
PcRank(pc) ==
  LET PcOrder ==
        <<"task", "queued", "load", "extract", "transcribe", "translate", "synthesize",
          "mux", "success", "finally", "except", "returned", "resolved">> IN
  CHOOSE i \in DOMAIN PcOrder : PcOrder[i] = pc

\* C34: nothing is retried: a frame of _process_dubbing_sync invokes each of
\* the five adapters at most once and never goes back to an earlier
\* statement, and a frame comes into being only with a call of
\* process_dubbing_job, in a step in which no frame on a worker moves.
C34_NothingRetried ==
  [][/\ \A c \in DOMAIN calls :
          /\ c \in DOMAIN calls'
          /\ PcRank(calls'[c].pc) >= PcRank(calls[c].pc)
          /\ \A i, j \in DOMAIN calls'[c].stages :
               calls'[c].stages[i][1] = calls'[c].stages[j][1] => i = j
     /\ \A c \in DOMAIN calls' \ DOMAIN calls :
          /\ \A d \in DOMAIN calls : calls'[d] = calls[d]
          /\ calls'[c].stages = <<>>
          /\ Cardinality(DOMAIN calls') = Cardinality(DOMAIN calls) + 1]_vars

\* a job whose first frame failed at the transcribe stage was submitted
\* again by its caller, and the second frame has run its extract stage
C34_Witness ==
  \E j \in DOMAIN jobs :
    /\ <<j, 2>> \in DOMAIN calls
    /\ calls[<<j, 1>>].pc = "resolved"
    /\ calls[<<j, 1>>].stages = << <<1, "ok">>, <<2, "absent">> >>
    /\ calls[<<j, 2>>].stages # <<>>
CompletedAtIffTerminal ==
  \A j \in DOMAIN jobs :
    jobs[j].processing_completed_at # None <=> jobs[j].status \in Terminal

\* C36: in every state and for every job, processing_started_at is set
\* exactly when the status is not PENDING, and processing_completed_at is
\* set exactly when the status is COMPLETED or FAILED.
C36_TimestampsMatchStatus ==
  /\ \A j \in DOMAIN jobs :
       jobs[j].processing_started_at # None <=> jobs[j].status # PENDING
  /\ CompletedAtIffTerminal
C38_WritesOwnRecordOnly ==
  [][/\ languages' = languages
     /\ \A v \in DOMAIN videos : v \in DOMAIN videos' /\ videos'[v] = videos[v]
     /\ \A j \in DOMAIN jobs :
          /\ jobs'[j].source_video_id = jobs[j].source_video_id
          /\ jobs'[j].target_language_id = jobs[j].target_language_id
          /\ jobs'[j] # jobs[j] =>
               \E c \in DOMAIN calls' :
                 /\ c[1] = j
                 /\ c \notin DOMAIN calls \/ calls'[c] # calls[c]]_vars

\* the frame of the first job has written COMPLETED while the frame of the
\* second job is on a worker, and the second row is as its own call left it
C38_Witness ==
  /\ Len(jobs) = 2
  /\ jobs[1].status = COMPLETED
  /\ calls[<<1, 1>>].pc = "resolved"
  /\ <<2, 1>> \in Running
  /\ jobs[2] = MarkProcessing(NewJob(jobs[2].source_video_id, jobs[2].target_language_id))
\* the calls of process_dubbing_job that were made: the monitor tasks that
\* have run
Called == {c \in DOMAIN calls : calls[c].pc # "task"}

\* C39: through the UI every job id is submitted at most once: every job
\* row has exactly one monitor task, made by the click that made the row,
\* and so no two calls of process_dubbing_job have the same job id.
C39_UISubmitsOnce ==
  /\ \A j \in DOMAIN jobs : Cardinality(FramesOf(j)) = 1
  /\ \A c \in DOMAIN calls : c[1] \in DOMAIN jobs
  /\ \A c, d \in Called : c[1] = d[1] => c = d

\* two clicks with the same target language made two jobs, and each was
\* submitted by its own task
C39_Witness ==
  /\ Len(jobs) = 2
  /\ jobs[1].target_language_id = jobs[2].target_language_id
  /\ Called = {<<1, 1>>, <<2, 1>>}
\* C40: after a call of _initialize_languages the table has exactly one row
\* for each of the codes en, es, fr, de, every row that was there is as it
\* was, and a call after the first changes nothing.
C40_InitializeIdempotent ==
  [][Startups' # Startups =>
       /\ \A code \in {ENGLISH, SPANISH, FRENCH, GERMAN} :
            Cardinality({l \in DOMAIN languages' : languages'[l].code = code}) = 1
       /\ Len(languages') = 4
       /\ \A l \in DOMAIN languages : languages'[l] = languages[l]
       /\ Startups >= 1 => languages' = languages]_vars

\* after two calls on a store that had Spanish alone, switched off, the
\* Spanish row is still the first and switched off, and there are four rows
C40_Witness ==
  /\ Startups = 2
  /\ Len(languages) = 4
  /\ languages[1] = [languages_data[2] EXCEPT !.is_active = FALSE]
  /\ languages[2] = languages_data[1]
====
